---- MODULE Spec2Model ----
(***************************************************************************)
(* Model of net_config/audio.py: the MelspectrogramStretch module (its     *)
(* construction, its training flag and its forward pass with the length    *)
(* bookkeeping) and the normalisation functions amplitude_to_db,           *)
(* power_to_db and spec_whiten.                                            *)
(*                                                                         *)
(* Numbers.  Probabilities and gate draws are multiples of 1/ProbDen,      *)
(* stretch bounds and rates are multiples of 1/RateDen.  A value of a      *)
(* power spectrogram handed to the decibel functions is written by its     *)
(* decade e (the value 10^e), so that log10 is exact; Silence is the       *)
(* value 0.  A value handed to spec_whiten is an integer v with v + eps a  *)
(* power of ten.  A tensor is a sequence (batch) of flat sequences.        *)
(* An optional value is <<>> (None) or <<v>>.                              *)
(***************************************************************************)
EXTENDS Integers, Sequences, FiniteSets, TLC

VARIABLES
    args,        \* the arguments __init__ was called with
    prob,        \* self.prob, in units of 1/ProbDen
    dist,        \* self.dist: the bound b of Uniform(-b, b), in units of 1/RateDen
    norm,        \* self.norm: "whiten", "db" or "none"
    stft,        \* self.stft: [fft_length, hop_length]
    pv,          \* self.pv: [hop_length, num_freqs]
    fft_length,  \* self.fft_length
    hop_length,  \* self.hop_length
    counter,     \* self.counter
    training,    \* self.training (nn.Module)
    ret          \* the last call and what it produced

vars == <<args, prob, dist, norm, stft, pv, fft_length, hop_length, counter, training, ret>>

module == <<args, prob, dist, norm, stft, pv, fft_length, hop_length, counter>>

----------------------------------------------------------------------------
(* Bounds of the model *)

MinFft == 4
MaxFft == 8
MaxHopArg == 1
MaxHop == 3
MaxSamples == 3
MaxBatch == 1
ProbDen == 2
RateDen == 3
MaxL == 9
MaxSpec == 2

None == <<>>
Some(v) == <<v>>

Max(a, b) == IF a >= b THEN a ELSE b

RECURSIVE SumSeq(_)
SumSeq(s) == IF s = <<>> THEN 0 ELSE Head(s) + SumSeq(Tail(s))

\* maximum of a non-empty set of integers
MaxOf(S) == CHOOSE m \in S : \A y \in S : y <= m

\* the values of a tensor
Values(t) == UNION {{t[b][i] : i \in DOMAIN t[b]} : b \in DOMAIN t}

\* Tensor.long() of the quotient a/b, b > 0: truncation toward zero
Long(a, b) == IF a >= 0 THEN a \div b ELSE -((-a) \div b)

----------------------------------------------------------------------------
(* _num_stft_bins and the external framer and stretcher *)

\* the conversion without the frame that starts at sample 0
num_stft_bins_floor(lengths, fft, hop, pad) ==
    (lengths + 2 * pad - fft) \div hop

num_stft_bins(lengths, fft, hop, pad) ==
    (lengths + 2 * pad - fft + hop) \div hop

\* Number of frames the centred framer emits for L samples: the signal is
\* padded by fft \div 2 on both sides and a frame starts at every multiple
\* of hop at which a whole window still fits.
StftFrames(L, fft, hop) ==
    LET padded == L + 2 * (fft \div 2)
    IN  Cardinality({k \in 0..padded : k * hop + fft <= padded})

\* Number of frames the time stretcher emits at rate n/RateDen.
TimeStretchFrames(frames, n) == (frames * RateDen) \div n

----------------------------------------------------------------------------
(* The decibel functions.  A value is its decade; Silence is the value 0. *)

Silence == -99
Decades == -1..1

DefaultRef == 0          \* ref=1.0
DefaultAmin == -10       \* amin=1e-10
DefaultTopDb == 80       \* top_db=80
DefaultEps == 1          \* eps=1

\* spec**2
Square(e) == IF e = Silence THEN Silence ELSE 2 * e

\* 10*torch.log10(torch.clamp(v, min=amin))
Db(v, amin) == 10 * Max(v, amin)

\* the clamp taken from above instead of from below
ClampMax(t, lo) ==
    [b \in DOMAIN t |-> [i \in DOMAIN t[b] |-> IF t[b][i] <= lo THEN t[b][i] ELSE lo]]

\* torch.clamp(t, min=lo)
ClampMin(t, lo) ==
    [b \in DOMAIN t |-> [i \in DOMAIN t[b] |-> Max(t[b][i], lo)]]

\* ref is [callable, value]; a callable ref is the maximum of its input
RefValue(ref, spec) == IF ref.callable THEN MaxOf(Values(spec)) ELSE ref.value

\* amin is Silence (a value <= 0) or a decade; top_db is None or Some(dB)
power_to_db(spec, ref, amin, top_db) ==
    IF amin = Silence
    THEN [raised |-> "NameError", value |-> <<>>]   \* ParameterError is not defined
    ELSE LET ref_value == RefValue(ref, spec)
             log_spec == [b \in DOMAIN spec |-> [i \in DOMAIN spec[b] |->
                             Db(spec[b][i], amin) - Db(ref_value, amin)]]
         IN  IF top_db = None
             THEN [raised |-> "none", value |-> log_spec]
             ELSE IF top_db[1] < 0
                  THEN [raised |-> "NameError", value |-> <<>>]
                  ELSE [raised |-> "none",
                        value |-> ClampMin(log_spec, MaxOf(Values(log_spec)) - top_db[1])]

amplitude_to_db(spec, ref, amin, top_db) ==
    LET power == [b \in DOMAIN spec |-> [i \in DOMAIN spec[b] |-> Square(spec[b][i])]]
    IN  power_to_db(power, ref, amin, top_db)

----------------------------------------------------------------------------
(* spec_whiten.  A value v of the input has v + eps a power of ten. *)

RECURSIVE Pow10(_)
Pow10(k) == IF k = 0 THEN 1 ELSE 10 * Pow10(k - 1)

MaxDecade == 2

\* torch.log10 on the powers of ten
Log10(v) == CHOOSE k \in 0..MaxDecade : Pow10(k) = v

NaN == [nan |-> TRUE, num |-> 0, ss |-> 0, n |-> 0]

\* One batch element, flattened.  With n values of sum S, the mean is S/n
\* and the unbiased variance is ss / (n*n*(n-1)) for ss the sum of the
\* squares of n*x - S; the entry (x - mean)/std is written [num, ss, n],
\* num = n*x - S.  A zero variance (or n = 1) gives 0/0.
WhitenRow(lrow) ==
    LET n  == Len(lrow)
        S  == SumSeq(lrow)
        ss == SumSeq([i \in 1..n |-> (n * lrow[i] - S) * (n * lrow[i] - S)])
    IN  [i \in 1..n |->
            IF n = 1 \/ ss = 0 THEN NaN
            ELSE [nan |-> FALSE, num |-> n * lrow[i] - S, ss |-> ss, n |-> n]]

spec_whiten(spec, eps) ==
    LET lspec == [b \in DOMAIN spec |-> [i \in DOMAIN spec[b] |->
                     Log10(spec[b][i] + eps)]]
    IN  [b \in DOMAIN lspec |-> WhitenRow(lspec[b])]

----------------------------------------------------------------------------
(* MelspectrogramStretch *)

\* all sequences over S of length n
SeqsOf(S, n) == [1..n -> S]

\* all tensors over S with B batch elements of n values each
Tensors(S, B, n) == SeqsOf(SeqsOf(S, n), B)

NormArgs == {"whiten", "db", "none"}

\* {'whiten': spec_whiten, 'db': amplitude_to_db}.get(norm, None)
NormGet(n) == IF n \in {"whiten", "db"} THEN n ELSE "none"

\* STFT(fft_length=..., hop_length=...)
STFT(fft, hop) == [fft_length |-> fft, hop_length |-> hop]

\* TimeStretch(hop_length=..., num_freqs=...)
TimeStretch(hop, freqs) == [hop_length |-> hop, num_freqs |-> freqs]

CtorArgs ==
    [hop_length : {None} \cup {Some(h) : h \in 1..MaxHopArg},
     fft_length : MinFft..MaxFft,
     norm : NormArgs,
     stretch_param : (0..ProbDen) \X (1..(RateDen - 1))]

\* MelspectrogramStretch.__init__
Construct(a) ==
    /\ args = a
    /\ prob = a.stretch_param[1]
    /\ dist = a.stretch_param[2]
    /\ norm = NormGet(a.norm)
    /\ stft = STFT(a.fft_length, a.fft_length \div 4)
    /\ pv = TimeStretch(stft.hop_length, a.fft_length \div 2 + 1)
    /\ fft_length = a.fft_length
    /\ hop_length = stft.hop_length
    /\ counter = 0
    /\ training = TRUE

\* no call is in progress and no result is held
Idle == [op |-> "idle"]

Init ==
    /\ \E a \in CtorArgs : Construct(a)
    /\ ret = Idle

\* nn.Module.train(mode) / nn.Module.eval(), between two calls
SetTraining(mode) ==
    /\ ret = Idle
    /\ training' = mode
    /\ UNCHANGED <<module, ret>>

\* the caller takes the returned values (or the exception); they are
\* transient and nothing of them stays in the module
Return ==
    /\ ret # Idle
    /\ ret' = Idle
    /\ UNCHANGED <<module, training>>

\* the gate without the mode
StretchGateAnyMode(draw) == draw <= prob

\* torch.rand(1)[0] <= self.prob and self.training
StretchGate(draw) == draw <= prob /\ training

\* the rates 1 - self.dist.sample(), in units of 1/RateDen
Rates == (RateDen - dist)..(RateDen + dist)

\* the update without the added frame
StretchLengthsFloor(lengths, rate) ==
    [i \in DOMAIN lengths |-> Long(lengths[i] * RateDen, rate)]

\* (lengths.float()/rate).long()+1
StretchLengths(lengths, rate) ==
    [i \in DOMAIN lengths |-> Long(lengths[i] * RateDen, rate) + 1]

\* self.norm(x), with the defaults of the function
ApplyNorm(x) ==
    IF norm = "whiten" THEN [raised |-> "none", value |-> spec_whiten(x, DefaultEps)]
    ELSE IF norm = "db"
         THEN amplitude_to_db(x, [callable |-> FALSE, value |-> DefaultRef],
                              DefaultAmin, Some(DefaultTopDb))
         ELSE [raised |-> "none", value |-> x]

\* the values a value of the mel power spectrogram is drawn from
MelVals == IF norm = "whiten" THEN {0, 9} ELSE {Silence, 1}

\* MelspectrogramStretch.forward(x, lengths) for x of T samples per batch
\* element; draw is torch.rand(1)[0], rate the sampled rate, mel one value
\* of self.app_fb(self.cn(x))
Forward(T, lengths, draw, rate, mel) ==
    LET stft_frames == StftFrames(T, stft.fft_length, stft.hop_length)
        bins == IF lengths = None THEN None
                ELSE Some([i \in DOMAIN lengths[1] |->
                            num_stft_bins(lengths[1][i], fft_length, hop_length,
                                          fft_length \div 2)])
        stretched == StretchGate(draw)
        frames == IF stretched THEN TimeStretchFrames(stft_frames, rate)
                  ELSE stft_frames
        failed == stretched /\ bins = None    \* None.float()
        out == ApplyNorm(mel)
        lengths2 == IF stretched /\ bins # None
                    THEN Some(StretchLengths(bins[1], rate)) ELSE bins
    IN  /\ ret = Idle
        /\ IF stretched THEN rate \in Rates ELSE rate = 0
        /\ ret' = [op |-> "forward", T |-> T, lengths_in |-> lengths, draw |-> draw,
                   training |-> training,
                   stretched |-> stretched, rate |-> rate,
                   stft_frames |-> stft_frames, bins |-> bins,
                   frames |-> frames, mel |-> mel,
                   raised |-> IF failed THEN "AttributeError" ELSE out.raised,
                   x |-> IF failed THEN <<>> ELSE out.value,
                   lengths |-> IF failed THEN None ELSE lengths2,
                   result |-> IF failed \/ out.raised # "none" THEN "raise"
                              ELSE IF lengths2 # None THEN "pair" ELSE "x"]
        /\ UNCHANGED <<module, training>>

ForwardCall ==
    /\ ret = Idle
    /\ \E T \in 1..MaxSamples, draw \in 0..(ProbDen - 1), B \in 1..MaxBatch :
         \E rate \in IF StretchGate(draw) THEN Rates ELSE {0} :
         \E lengths \in {None} \cup {Some(l) : l \in SeqsOf(0..T, B)} :
         \E mel \in Tensors(MelVals, 1, 1) :
            Forward(T, lengths, draw, rate, mel)

TrainCall == ret = Idle /\ \E mode \in BOOLEAN : SetTraining(mode)

Next == ForwardCall \/ TrainCall \/ Return

Spec == Init /\ [][Next]_vars

----------------------------------------------------------------------------
(* The functions of the file called on their own *)

\* the module the function calls run next to
FnArgs == [hop_length |-> None, fft_length |-> MinFft, norm |-> "whiten",
           stretch_param |-> <<0, 1>>]

InitFn ==
    /\ Construct(FnArgs)
    /\ ret = Idle

\* a sequence of L samples is framed by STFT(fft, hop) and its length is
\* converted by _num_stft_bins(L, fft, hop, fft//2)
FrameCount(L, fft, hop) ==
    /\ ret = Idle
    /\ ret' = [op |-> "_num_stft_bins", L |-> L, fft |-> fft, hop |-> hop,
               pad |-> fft \div 2,
               bins |-> num_stft_bins(L, fft, hop, fft \div 2),
               frames |-> StftFrames(L, STFT(fft, hop).fft_length,
                                     STFT(fft, hop).hop_length)]
    /\ UNCHANGED <<module, training>>

DbVals == {Silence} \cup Decades
Refs == {[callable |-> TRUE, value |-> 0]} \cup
        {[callable |-> FALSE, value |-> v] : v \in {DefaultRef, 1}}
Amins == {Silence, DefaultAmin, -1}
TopDbs == {None} \cup {Some(d) : d \in {-10, 0, 10, DefaultTopDb}}

PowerToDb(spec, ref, amin, top_db) ==
    /\ ret = Idle
    /\ ret' = [op |-> "power_to_db", spec |-> spec, ref |-> ref, amin |-> amin,
               top_db |-> top_db, out |-> power_to_db(spec, ref, amin, top_db)]
    /\ UNCHANGED <<module, training>>

AmplitudeToDb(spec, ref, amin, top_db) ==
    /\ ret = Idle
    /\ ret' = [op |-> "amplitude_to_db", spec |-> spec, ref |-> ref, amin |-> amin,
               top_db |-> top_db, out |-> amplitude_to_db(spec, ref, amin, top_db)]
    /\ UNCHANGED <<module, training>>

WhitenVals == {Pow10(k) - DefaultEps : k \in 0..MaxDecade}

SpecWhiten(spec) ==
    /\ ret = Idle
    /\ ret' = [op |-> "spec_whiten", spec |-> spec,
               out |-> spec_whiten(spec, DefaultEps)]
    /\ UNCHANGED <<module, training>>

FrameCountCall ==
    /\ ret = Idle
    /\ \E L \in 0..MaxL, fft \in 1..MaxFft, hop \in 1..MaxHop :
         FrameCount(L, fft, hop)

PowerToDbCall ==
    /\ ret = Idle
    /\ \E B \in 1..MaxBatch, n \in 1..MaxSpec :
         \E spec \in Tensors(DbVals, B, n), ref \in Refs, amin \in Amins, top_db \in TopDbs :
            PowerToDb(spec, ref, amin, top_db)

AmplitudeToDbCall ==
    /\ ret = Idle
    /\ \E B \in 1..MaxBatch, n \in 1..MaxSpec :
         \E spec \in Tensors(DbVals, B, n), ref \in Refs, amin \in Amins, top_db \in TopDbs :
            AmplitudeToDb(spec, ref, amin, top_db)

SpecWhitenCall ==
    /\ ret = Idle
    /\ \E B \in 1..MaxBatch, n \in 1..MaxSpec :
         \E spec \in Tensors(WhitenVals, B, n) : SpecWhiten(spec)

NextFn == FrameCountCall \/ PowerToDbCall \/ AmplitudeToDbCall \/ SpecWhitenCall
          \/ Return

SpecFn == InitFn /\ [][NextFn]_vars

----------------------------------------------------------------------------
(* Properties *)

IsForward == ret.op = "forward"

\* C1 (SpecFn): for every sample length L and every fft_length and
\* hop_length >= 1, _num_stft_bins(L, fft_length, hop_length, fft_length//2)
\* is floor((L + 2*pad - fft_length) / hop_length) + 1 and is the number of
\* frames the centred framer emits for L samples.
C1_FrameCountLaw ==
    ret.op = "_num_stft_bins" =>
        /\ ret.bins = ((ret.L + 2 * ret.pad - ret.fft) \div ret.hop) + 1
        /\ ret.bins = ret.frames

\* a sequence shorter than the window, with a hop that does not divide it
C1_Witness ==
    /\ ret.op = "_num_stft_bins"
    /\ ret.L < ret.fft
    /\ ret.L % ret.hop # 0
    /\ ret.frames >= 2

\* C2 (Spec): a forward call in inference mode never stretches, whatever
\* the probability and the draw: its frame count is the framer's and its
\* returned lengths are _num_stft_bins of the supplied ones; a call in
\* training mode with probability 1 always samples a rate and stretches.
C2_ModeGating ==
    IsForward =>
        /\ ~ret.training =>
              /\ ~ret.stretched
              /\ ret.frames = StftFrames(ret.T, stft.fft_length, stft.hop_length)
              /\ ret.lengths_in # None =>
                    /\ ret.result = "pair"
                    /\ ret.lengths =
                         Some([i \in DOMAIN ret.lengths_in[1] |->
                                num_stft_bins(ret.lengths_in[1][i], fft_length,
                                              hop_length, fft_length \div 2)])
        /\ (ret.training /\ prob = ProbDen) =>
              /\ ret.stretched
              /\ ret.rate \in Rates
              /\ ret.frames = TimeStretchFrames(ret.stft_frames, ret.rate)

\* an inference call with probability 1 and a length vector
C2_Witness ==
    /\ IsForward
    /\ ~ret.training
    /\ prob = ProbDen
    /\ ret.lengths_in # None
    /\ ret.frames >= 2

\* C3 (Spec): every forward call completes, and returns the tensor alone
\* when no length vector was supplied and the pair (tensor, lengths) when
\* one was.
C3_OptionalLength ==
    IsForward =>
        ret.result = IF ret.lengths_in = None THEN "x" ELSE "pair"

\* C4 (Spec): the hop length of the framer, of the time stretcher and of
\* the length derivation is the hop_length given at construction, and
\* fft_length/4 only when none is given.
C4_HopLength ==
    IsForward =>
        LET h == IF args.hop_length = None THEN args.fft_length \div 4
                 ELSE args.hop_length[1]
        IN  /\ stft.hop_length = h
            /\ pv.hop_length = h
            /\ hop_length = h

\* C5 (Spec): a stretch at rate r > 0 turns a frame length old >= 1 into
\* floor(old / r) + 1, which is <= old for r > 1, >= old for r < 1 and
\* always >= 1.
C5_LengthMonotone ==
    (IsForward /\ ret.stretched /\ ret.bins # None) =>
        \A i \in DOMAIN ret.bins[1] :
            LET old == ret.bins[1][i]
                new == ret.lengths[1][i]
            IN  old >= 1 =>
                  /\ ret.rate > 0
                  /\ new = ((old * RateDen) \div ret.rate) + 1
                  /\ ret.rate > RateDen => new <= old
                  /\ ret.rate < RateDen => new >= old
                  /\ new >= 1

\* a compression that shortens a length and a length of one frame
C5_Witness ==
    /\ IsForward /\ ret.stretched /\ ret.bins # None
    /\ ret.rate > RateDen
    /\ \E i \in DOMAIN ret.bins[1] :
          ret.bins[1][i] >= 2 /\ ret.lengths[1][i] < ret.bins[1][i]

\* C6 (Spec): after a forward call given lengths that are at most the
\* padded sample length, every returned length is at most the number of
\* time frames of the returned tensor.
C6_LengthWithinFrames ==
    (IsForward /\ ret.lengths # None) =>
        \A i \in DOMAIN ret.lengths[1] : ret.lengths[1][i] <= ret.frames

\* C7 (Spec): with norm = 'db' the output is the decibel conversion of the
\* mel power spectrogram itself, which is not squared again.
C7_DbOfPower ==
    (IsForward /\ norm = "db" /\ ret.raised = "none") =>
        ret.x = power_to_db(ret.mel, [callable |-> FALSE, value |-> DefaultRef],
                            DefaultAmin, Some(DefaultTopDb)).value

\* C8 (SpecFn): with a top_db >= 0 every value power_to_db returns is at
\* least the maximum of the output minus top_db, and the maximum is that of
\* the log spectrogram before the clamp.
C8_DbClamp ==
    (ret.op = "power_to_db" /\ ret.out.raised = "none" /\ ret.top_db # None) =>
        LET out == Values(ret.out.value)
            log_spec == Values(power_to_db(ret.spec, ret.ref, ret.amin, None).value)
        IN  /\ \A v \in out : v >= MaxOf(out) - ret.top_db[1]
            /\ MaxOf(out) = MaxOf(log_spec)

\* a call whose clamp raises a value
C8_Witness ==
    /\ ret.op = "power_to_db" /\ ret.out.raised = "none" /\ ret.top_db # None
    /\ ret.top_db[1] > 0
    /\ \E b \in DOMAIN ret.spec : \E i \in DOMAIN ret.spec[b] :
          ret.out.value[b][i] >
              power_to_db(ret.spec, ret.ref, ret.amin, None).value[b][i]

\* C9 (SpecFn): for a batch element whose values are all equal, every
\* entry spec_whiten returns is a well-defined number.
C9_WhitenConstant ==
    ret.op = "spec_whiten" =>
        \A b \in DOMAIN ret.spec :
            (\A i, j \in DOMAIN ret.spec[b] : ret.spec[b][i] = ret.spec[b][j]) =>
                \A i \in DOMAIN ret.out[b] : ~ret.out[b][i].nan

\* C10 (Spec): the stretch is applied only when the draw falls within the
\* probability mass, draw < stretch_prob; with stretch_prob = 0 it is never
\* applied, also for a draw of exactly 0.
C10_GateWithinMass ==
    (IsForward /\ ret.stretched) => ret.draw < prob

====
